---- MODULE Spec2Model ----
(***************************************************************************)
(* RawInputClient of smdb/cwb.py: the client that streams one channel of   *)
(* samples to an Edge/CWB RawInputServer over a TCP socket.                *)
(*                                                                         *)
(* The model follows one client object through its life: construction,    *)
(* send_trace, forceout, close, and the private steps those methods take   *)
(* (_send, _open_socket, _get_data, _get_forceout, _get_tag).  The network *)
(* is the environment: every connect and every sendall either succeeds or  *)
(* raises socket.error.  Times are whole seconds counted from the start    *)
(* time of the trace; sample k of a trace of rate r lies at k / r seconds. *)
(* The code is Python 2 with the `future` package (socket.error is         *)
(* indexable, range() converts a float step with int()).                   *)
(***************************************************************************)
EXTENDS Integers, Sequences, FiniteSets, TLC

\* ---------------------------------------------------------------- constants

MAXINPUTSIZE == 32767
TAG == -1
FORCEOUT == -2
\* len(self.tag) > 10 in __init__
TagLimit == 10
\* timeoffset = 60 in send_trace
timeoffset == 60
\* `if trys > 2` in _open_socket
TrysLimit == 2
\* signed short of struct format 'h'
ShortMin == -32768
ShortMax == 32767

\* PACKETHEAD = 0xa1b2
PACKETHEAD == 41394
\* the thresholds of _get_mantissa_divisor are written in units of 1e-4 and
\* 1e-8: `rate > 0.9999` and `rate * 60. - 1.0 < 0.00000001`
RateFloor == 9999
MinuteTolerance == 100000000

\* len of tnow = datetime.utcnow().strftime('%Y%m%d%H%M%S') in store_stream
TnowLen == 14
\* the three '.' and the '_' of the tag format of store_stream
TagSeparators == 4

\* ------------------------------------------------------------------- bounds

\* operations one caller invokes on a client
MaxOps == 3
\* longest tag a caller passes to the constructor
MaxTagLen == 11

\* traces a caller sends: sampling rate in Hz and number of samples.  150
\* samples at 1 Hz make three passes of the loop of send_trace; at 200 Hz the
\* first slice of send_trace holds the whole trace, 32767 or 32768 samples.
Traces ==
  { [rate |-> 1, n |-> 150],
    [rate |-> 1, n |-> 0],
    [rate |-> 200, n |-> 32767],
    [rate |-> 200, n |-> 32768] }

\* traces store_stream is given
MaxStream == 2

\* rates given to the rate encoding: every multiple of 1e-4 Hz up to
\* MaxRateNum * 1e-4 Hz, every whole rate up to MaxHz, and the rates
\* 1/60 Hz + k / FineDen for |k| <= FineSpan
MaxRateNum == 10100
MaxHz == 400
FineSpan == 8
FineDen == 60 * 10000000
Rates ==
  { [num |-> n, den |-> 10000] : n \in 1..MaxRateNum }
    \cup { [num |-> h * 10000, den |-> 10000] : h \in 1..MaxHz }
    \cup { [num |-> (FineDen \div 60) + k, den |-> FineDen] : k \in (0 - FineSpan)..FineSpan }

\* sample counts given to _get_data on its own, and the sequence numbers a
\* client has reached by then
MaxChunk == 3
MaxSeq == 2
SampleCounts == 0..MaxChunk \cup {MAXINPUTSIZE, MAXINPUTSIZE + 1}

\* lengths of the network, station, channel and location codes a client is
\* constructed with: '' is the default of each
MaxStation == 5
CodeSets ==
  [net : {0, 2}, sta : 0..MaxStation, cha : {0, 3}, loc : {0, 2}]

\* tag lengths a caller passes: the empty default, the two longest accepted
\* ones and every longer one up to MaxTagLen
TagLens == {0, TagLimit - 1, TagLimit} \cup (TagLimit + 1)..MaxTagLen

\* a trace of a stream: its samples and the summed lengths of its network,
\* station, channel and location codes (none given, or 2 + 5 + 3 + 2)
StreamItems ==
  { [tr |-> t, codes |-> c] : t \in {[rate |-> 1, n |-> 150], [rate |-> 1, n |-> 0]},
                              c \in {0, 12} }

SeqsUpTo(S, k) == UNION { [1..m -> S] : m \in 0..k }

None == 0

VARIABLES
  client,     \* "none" before construction, "ready", or "failed" (__init__ raised)
  tag,        \* len(self.tag)
  socket,     \* self.socket: None or the index of a socket in socks
  sequence,   \* self.sequence
  pc,         \* position of the running call: idle, loop, send, connect, tag, write
  op,         \* the public method the caller invoked last
  trace,      \* send_trace: the trace argument
  i,          \* send_trace: loop variable
  nsamp,      \* send_trace: nsamp
  starttime,  \* send_trace: starttime
  buf,        \* the packet handed to _send
  trys,       \* _open_socket: trys
  socks,      \* every socket object created: [connected, closed]
  wire,       \* every sendall made, in order, with its outcome
  connects,   \* connect attempts of the latest _open_socket
  sleeps,     \* sleep(1) calls of the latest _open_socket
  err,        \* the exception the last call raised to its caller, or "none"
  ops,        \* operations invoked so far
  seq0,       \* self.sequence when the running call began
  wire0,      \* Len(wire) when the running call began
  caller,     \* who drives the client: "user" code or "store_stream"
  stream,     \* store_stream: the traces of the stream not yet handled
  caught,     \* store_stream: exceptions caught and printed
  enc         \* the last call of an encoding method made on its own, and its result

vars == << client, tag, socket, sequence, pc, op, trace, i, nsamp, starttime,
           buf, trys, socks, wire, connects, sleeps, err, ops, seq0, wire0,
           caller, stream, caught, enc >>

storeVars == << caller, stream, caught >>

NoTrace == [rate |-> 0, n |-> 0]
NoBuf == [kind |-> "none", nsamp |-> 0, seq |-> 0, time |-> 0, lo |-> 0,
          mant |-> 0, div |-> 0, size |-> 0]
NoEnc == [fn |-> "none"]

Init ==
  /\ client = "none"
  /\ tag = 0
  /\ socket = None
  /\ sequence = 0
  /\ pc = "idle"
  /\ op = "none"
  /\ trace = NoTrace
  /\ i = 0
  /\ nsamp = 0
  /\ starttime = 0
  /\ buf = NoBuf
  /\ trys = 0
  /\ socks = << >>
  /\ wire = << >>
  /\ connects = 0
  /\ sleeps = 0
  /\ err = "none"
  /\ ops = 0
  /\ seq0 = 0
  /\ wire0 = 0
  /\ caller = "none"
  /\ stream = << >>
  /\ caught = 0
  /\ enc = NoEnc

\* ------------------------------------------------------------ pure helpers

Min(a, b) == IF a < b THEN a ELSE b

\* struct.pack of one 'h' field: the value must fit a signed short
FitsShort(v) == ShortMin <= v /\ v <= ShortMax

\* trace.slice(starttime, endtime).data: the samples of tr whose times lie in
\* [st, en]; lo is the index of the first one, len their number.  Nothing is
\* left when st is after the last sample of the trace.
Slice(tr, st, en) ==
  IF st * tr.rate > tr.n - 1
    THEN [lo |-> tr.n, len |-> 0]
    ELSE [lo |-> st * tr.rate, len |-> Min(tr.n, en * tr.rate + 1) - st * tr.rate]

\* A sampling rate is the exact fraction num / den Hz; den is a multiple of
\* 10000.  The code computes in double precision; the model computes exactly.
Hz(n) == [num |-> n * 10000, den |-> 10000]

\* den / 10000: what 1e-4 Hz is in units of 1 / den
Unit(r) == r.den \div 10000

\* int(n / e + 0.001) for n >= 0, e > 0: int() truncates
IntPlusMilli(n, e) ==
  (n \div e) + (IF 1000 * (n % e) + e >= 1000 * e THEN 1 ELSE 0)

\* int(n / e + 0.5): what the encoding would return if it rounded
IntPlusHalf(n, e) ==
  (n \div e) + (IF 2 * (n % e) >= e THEN 1 ELSE 0)

\* mutant of GetMantissaDivisor: the mantissa is rounded to the nearest integer
GetMantissaDivisorRound(r) ==
  IF r.num > RateFloor * Unit(r)
    THEN [mant |-> IntPlusHalf(r.num, 100 * Unit(r)), div |-> -100]
    ELSE IF 60 * r.num - r.den <= (r.den - 1) \div MinuteTolerance
      THEN [mant |-> -60, div |-> 1]
      ELSE [mant |-> IntPlusHalf(r.num, Unit(r)), div |-> -10000]

\* mutant of GetMantissaDivisor: the one-minute test takes the absolute value
GetMantissaDivisorAbs(r) ==
  IF r.num > RateFloor * Unit(r)
    THEN [mant |-> IntPlusMilli(r.num, 100 * Unit(r)), div |-> -100]
    ELSE IF /\ 60 * r.num - r.den <= (r.den - 1) \div MinuteTolerance
            /\ r.den - 60 * r.num <= (r.den - 1) \div MinuteTolerance
      THEN [mant |-> -60, div |-> 1]
      ELSE [mant |-> IntPlusMilli(r.num, Unit(r)), div |-> -10000]

\* _get_mantissa_divisor(rate).  `rate * 60. - 1.0 < 0.00000001` for
\* rate = num / den is 60 * num - den < den / 1e8, and the left side is whole.
GetMantissaDivisor(r) ==
  IF r.num > RateFloor * Unit(r)
    THEN [mant |-> IntPlusMilli(r.num, 100 * Unit(r)), div |-> -100]
    ELSE IF 60 * r.num - r.den <= (r.den - 1) \div MinuteTolerance
      THEN [mant |-> -60, div |-> 1]
      ELSE [mant |-> IntPlusMilli(r.num, Unit(r)), div |-> -10000]

\* a string of n characters c
Chars(c, n) == [k \in 1..n |-> c]

\* s.ljust(n): s padded with spaces on the right to n characters
Ljust(s, n) == IF Len(s) >= n THEN s ELSE s \o Chars(" ", n - Len(s))

\* what struct.pack puts in a '12s' field: the first 12 characters, padded
\* with null bytes when there are fewer
Pack12s(s) == IF Len(s) >= 12 THEN SubSeq(s, 1, 12) ELSE s \o Chars("NUL", 12 - Len(s))

\* create_seedname(observatory, channel, location, network): only the
\* station code is padded
CreateSeedname(c) ==
  Chars("N", c.net) \o Ljust(Chars("S", c.sta), 5) \o Chars("C", c.cha)
    \o Chars("L", c.loc)

\* mutant of TagName: the tag is padded with 10 spaces, not 12
TagNameShortPad == Pack12s(SubSeq(Chars("t", tag) \o Chars(" ", 10), 1, Min(12, tag + 10)))

\* tg = self.tag + 12 spaces; tg[:12] goes into the '12s' field of the tag packet
TagName == Pack12s(SubSeq(Chars("t", tag) \o Chars(" ", 12), 1, 12))

\* the values _get_tag gives struct.pack after the format
TagValues == << PACKETHEAD, TAG, TagName, 0, 0, 0, 0, 0, 0 >>

\* a struct format: items of a repeat count and a format character
Item(n, c) == [n |-> n, c |-> c]
\* PACKSTR = '!1H1h12s4h4B3i'
PACKSTR == << Item(1, "H"), Item(1, "h"), Item(12, "s"), Item(4, "h"),
             Item(4, "B"), Item(3, "i") >>
\* TAGSTR = '!1H1h12s6i'
TAGSTR == << Item(1, "H"), Item(1, "h"), Item(12, "s"), Item(6, "i") >>

\* bytes of one value of a format character in standard ('!') size
SizeOf(c) == CASE c \in {"H", "h"} -> 2
               [] c \in {"s", "B"} -> 1
               [] c = "i" -> 4

\* struct.calcsize(fmt): the length of what struct.pack(fmt, ...) returns
RECURSIVE CalcSize(_)
CalcSize(fmt) ==
  IF fmt = << >> THEN 0
  ELSE Head(fmt).n * SizeOf(Head(fmt).c) + CalcSize(Tail(fmt))

\* packStr = '%s%d%s' % (PACKSTR, nsamp, 'i') in _get_data
DataStr(n) == PACKSTR \o << Item(n, "i") >>

\* mutant of GetData: the size check refuses MAXINPUTSIZE samples too
GetDataStrict(len, lo, time, rate, seq) ==
  IF len >= MAXINPUTSIZE
    THEN [err |-> "toolarge", pkt |-> NoBuf]
    ELSE LET md == GetMantissaDivisor(rate)
         IN  [err |-> "none",
              pkt |-> [kind |-> "data", nsamp |-> len, seq |-> seq, time |-> time,
                       lo |-> lo, mant |-> md.mant, div |-> md.div,
                       size |-> CalcSize(DataStr(len))]]

\* mutant of GetData: the sequence field is the number after this packet
GetDataNextSeq(len, lo, time, rate, seq) ==
  IF len > MAXINPUTSIZE
    THEN [err |-> "toolarge", pkt |-> NoBuf]
    ELSE LET md == GetMantissaDivisor(rate)
         IN  [err |-> "none",
              pkt |-> [kind |-> "data", nsamp |-> len, seq |-> seq + 1, time |-> time,
                       lo |-> lo, mant |-> md.mant, div |-> md.div,
                       size |-> CalcSize(DataStr(len))]]

\* _get_data(samples, time, rate) with len(samples) = len, samples being the
\* samples lo, lo + 1, ... of the trace: the exception it raises ("none" when
\* it returns) and the packet it returns.  struct.pack raises struct.error
\* for a value that does not fit its 'h' field.
GetData(len, lo, time, rate, seq) ==
  IF len > MAXINPUTSIZE
    THEN [err |-> "toolarge", pkt |-> NoBuf]
    ELSE LET md == GetMantissaDivisor(rate)
         IN  IF ~(FitsShort(len) /\ FitsShort(md.mant) /\ FitsShort(md.div))
               THEN [err |-> "struct", pkt |-> NoBuf]
               ELSE [err |-> "none",
                     pkt |-> [kind |-> "data", nsamp |-> len, seq |-> seq,
                              time |-> time, lo |-> lo, mant |-> md.mant,
                              div |-> md.div, size |-> CalcSize(DataStr(len))]]

\* _get_forceout(time, rate): the header alone, with nsamp = FORCEOUT
GetForceout(time, rate, seq) ==
  LET md == GetMantissaDivisor(rate)
  IN  [kind |-> "forceout", nsamp |-> FORCEOUT, seq |-> seq, time |-> time,
       lo |-> 0, mant |-> md.mant, div |-> md.div, size |-> CalcSize(PACKSTR)]

\* _get_tag(): nsamp = TAG and six zero int fields (the rate fields and the
\* sequence field of a header lie in them); self.sequence is not read
GetTag ==
  [kind |-> "tag", nsamp |-> TAG, seq |-> 0, time |-> 0, lo |-> 0, mant |-> 0,
   div |-> 0, size |-> CalcSize(TAGSTR)]

\* one sendall(b) on socket s made while the loop variable was idx
Sent(s, b, idx, ok) ==
  [sock |-> s, kind |-> b.kind, nsamp |-> b.nsamp, seq |-> b.seq,
   time |-> b.time, lo |-> b.lo, mant |-> b.mant, div |-> b.div,
   size |-> b.size, idx |-> idx, ok |-> ok]

\* mutant of SequenceAfter: the increment is missing
SequenceStuck(ok) == sequence

\* mutant of SequenceAfter: the increment stands before sendall
SequenceAlways(ok) == sequence + 1

\* `self.sequence += 1` stands after sendall inside the try of _send
SequenceAfter(ok) == IF ok THEN sequence + 1 ELSE sequence

\* mutant of TagAccepted: the check refuses a tag of TagLimit characters too
TagAcceptedShort(len) == ~(len >= TagLimit)

\* the length check of __init__
TagAccepted(len) == ~(len > TagLimit)

\* nsamp = samplerate * 60, the step of range(0, totalsamps, nsamp)
Step(tr) == tr.rate * 60

\* `if trys > 2: raise` mutated: gives up one pass earlier
GiveUpEarly(t) == t >= TrysLimit

\* `if trys > 2: raise Exception('Could not open socket')` in _open_socket
GiveUp(t) == t > TrysLimit

\* mutant of Raise: send_trace catches the exception and goes on with its loop
RaiseAndGoOn(e) ==
  /\ pc' = IF op = "send_trace" THEN "loop" ELSE "idle"
  /\ err' = e

\* an exception leaves the running call: the caller has it
Raise(e) ==
  /\ pc' = "idle"
  /\ err' = e

\* ------------------------------------------------------------------ actions

\* RawInputClient(tag=...): the fields are set, then an over-long tag raises
Construct(len) ==
  /\ UNCHANGED enc
  /\ caller \in {"none", "user"}
  /\ caller' = "user"
  /\ UNCHANGED << stream, caught >>
  /\ client = "none"
  /\ tag' = len
  /\ socket' = None
  /\ sequence' = 0
  /\ client' = IF TagAccepted(len) THEN "ready" ELSE "failed"
  /\ err' = IF TagAccepted(len) THEN "none" ELSE "tag"
  /\ UNCHANGED << pc, op, trace, i, nsamp, starttime, buf, trys, socks, wire,
                  connects, sleeps, ops, seq0, wire0 >>

\* the caller may invoke a method of a constructed client that is not running one
CanCall ==
  /\ caller = "user"
  /\ client = "ready"
  /\ pc = "idle"
  /\ ops < MaxOps

\* send_trace(trace), up to the for loop
SendTrace(tr) ==
  /\ UNCHANGED enc
  /\ UNCHANGED storeVars
  /\ CanCall
  /\ op' = "send_trace"
  /\ trace' = tr
  /\ i' = 0
  /\ nsamp' = Step(tr)
  /\ starttime' = 0
  /\ pc' = "loop"
  /\ err' = "none"
  /\ ops' = ops + 1
  /\ seq0' = sequence
  /\ wire0' = Len(wire)
  /\ UNCHANGED << client, tag, socket, sequence, buf, trys, socks, wire,
                  connects, sleeps >>

\* one pass of the for loop of send_trace, up to the call of _send; the loop
\* ends when range(0, totalsamps, nsamp) is exhausted
Loop ==
  /\ UNCHANGED enc
  /\ UNCHANGED storeVars
  /\ pc = "loop"
  /\ IF i >= trace.n
       THEN /\ pc' = "idle"
            /\ UNCHANGED << nsamp, buf, err >>
       ELSE LET endsample == IF trace.n - i < nsamp THEN trace.n ELSE i + nsamp
                ns == endsample - i
                endtime == starttime + (ns - 1) * timeoffset
                sl == Slice(trace, starttime, endtime)
                d == GetData(sl.len, sl.lo, starttime, Hz(trace.rate), sequence)
            IN  /\ nsamp' = ns
                /\ IF d.err = "none"
                     THEN /\ buf' = d.pkt
                          /\ pc' = "send"
                          /\ UNCHANGED err
                     ELSE /\ Raise(d.err)
                          /\ UNCHANGED buf
  /\ UNCHANGED << client, tag, socket, sequence, op, trace, i, starttime, trys,
                  socks, wire, connects, sleeps, ops, seq0, wire0 >>

\* forceout(), up to the call of _send: the rate it passes is 0., the time
\* is the clock reading, which is not modelled
Forceout ==
  /\ UNCHANGED enc
  /\ UNCHANGED storeVars
  /\ CanCall
  /\ op' = "forceout"
  /\ buf' = GetForceout(0, Hz(0), sequence)
  /\ pc' = "send"
  /\ err' = "none"
  /\ ops' = ops + 1
  /\ seq0' = sequence
  /\ wire0' = Len(wire)
  /\ UNCHANGED << client, tag, socket, sequence, trace, i, nsamp, starttime,
                  trys, socks, wire, connects, sleeps >>

\* _send(buf): `if self.socket is None: self._open_socket()`
Send ==
  /\ UNCHANGED enc
  /\ UNCHANGED storeVars
  /\ pc = "send"
  /\ IF socket = None
       THEN /\ pc' = "connect"
            /\ trys' = 0
            /\ connects' = 0
            /\ sleeps' = 0
       ELSE /\ pc' = "write"
            /\ UNCHANGED << trys, connects, sleeps >>
  /\ UNCHANGED << client, tag, socket, sequence, op, trace, i, nsamp, starttime,
                  buf, socks, wire, err, ops, seq0, wire0 >>

\* mutant of Connect: _open_socket returns without sending the tag
ConnectNoTag(ok) ==
  /\ UNCHANGED enc
  /\ UNCHANGED storeVars
  /\ pc = "connect"
  /\ socks' = Append(socks, [connected |-> ok, closed |-> FALSE])
  /\ connects' = connects + 1
  /\ sleeps' = IF ok THEN sleeps ELSE sleeps + 1
  /\ IF GiveUp(trys)
       THEN /\ Raise("open")
            /\ UNCHANGED << trys, socket >>
       ELSE /\ trys' = trys + 1
            /\ UNCHANGED err
            /\ IF ok
                 THEN /\ socket' = Len(socks) + 1
                      /\ pc' = "write"
                 ELSE /\ pc' = "connect"
                      /\ UNCHANGED socket
  /\ UNCHANGED << client, tag, sequence, op, trace, i, nsamp, starttime, buf,
                  wire, ops, seq0, wire0 >>

\* one pass of the while loop of _open_socket: a new socket object, connect,
\* sleep(1) when it failed, then the check of trys; after the loop
\* self.socket = newsocket
Connect(ok) ==
  /\ UNCHANGED enc
  /\ UNCHANGED storeVars
  /\ pc = "connect"
  /\ socks' = Append(socks, [connected |-> ok, closed |-> FALSE])
  /\ connects' = connects + 1
  /\ sleeps' = IF ok THEN sleeps ELSE sleeps + 1
  /\ IF GiveUp(trys)
       THEN /\ Raise("open")
            /\ UNCHANGED << trys, socket >>
       ELSE /\ trys' = trys + 1
            /\ UNCHANGED err
            /\ IF ok
                 THEN /\ socket' = Len(socks) + 1
                      /\ pc' = "tag"
                 ELSE /\ pc' = "connect"
                      /\ UNCHANGED socket
  /\ UNCHANGED << client, tag, sequence, op, trace, i, nsamp, starttime, buf,
                  wire, ops, seq0, wire0 >>

\* self.socket.sendall(self._get_tag()), the last line of _open_socket; a
\* socket.error is caught in _send and raised again as Exception
TagSend(ok) ==
  /\ UNCHANGED enc
  /\ UNCHANGED storeVars
  /\ pc = "tag"
  /\ wire' = Append(wire, Sent(socket, GetTag, i, ok))
  /\ IF ok
       THEN /\ pc' = "write"
            /\ UNCHANGED err
       ELSE Raise("socket")
  /\ UNCHANGED << client, tag, socket, sequence, op, trace, i, nsamp, starttime,
                  buf, trys, socks, connects, sleeps, ops, seq0, wire0 >>

\* mutant of Write: a failed sendall drops the socket, so that the next _send
\* opens a new one
WriteDropsSocket(ok) ==
  /\ UNCHANGED enc
  /\ UNCHANGED storeVars
  /\ pc = "write"
  /\ wire' = Append(wire, Sent(socket, buf, i, ok))
  /\ sequence' = SequenceAfter(ok)
  /\ socket' = IF ok THEN socket ELSE None
  /\ IF ok
       THEN /\ UNCHANGED err
            /\ IF op = "send_trace"
                 THEN /\ pc' = "loop"
                      /\ i' = i + Step(trace)
                      /\ starttime' = starttime + nsamp * timeoffset
                 ELSE /\ pc' = "idle"
                      /\ UNCHANGED << i, starttime >>
       ELSE /\ Raise("socket")
            /\ UNCHANGED << i, starttime >>
  /\ UNCHANGED << client, tag, op, trace, nsamp, buf, trys, socks,
                  connects, sleeps, ops, seq0, wire0 >>

\* self.socket.sendall(buf); self.sequence += 1, and back in the caller:
\* send_trace moves starttime on and takes the next i, forceout returns
Write(ok) ==
  /\ UNCHANGED enc
  /\ UNCHANGED storeVars
  /\ pc = "write"
  /\ wire' = Append(wire, Sent(socket, buf, i, ok))
  /\ sequence' = SequenceAfter(ok)
  /\ IF ok
       THEN /\ UNCHANGED err
            /\ IF op = "send_trace"
                 THEN /\ pc' = "loop"
                      /\ i' = i + Step(trace)
                      /\ starttime' = starttime + nsamp * timeoffset
                 ELSE /\ pc' = "idle"
                      /\ UNCHANGED << i, starttime >>
       ELSE /\ Raise("socket")
            /\ UNCHANGED << i, starttime >>
  /\ UNCHANGED << client, tag, socket, op, trace, nsamp, buf, trys, socks,
                  connects, sleeps, ops, seq0, wire0 >>

\* mutant of Close: `if self.socket is not None` is missing, so that close()
\* on a client without a socket raises
CloseUnguarded ==
  /\ UNCHANGED enc
  /\ UNCHANGED storeVars
  /\ CanCall
  /\ op' = "close"
  /\ err' = IF socket = None THEN "attribute" ELSE "none"
  /\ ops' = ops + 1
  /\ seq0' = sequence
  /\ wire0' = Len(wire)
  /\ IF socket # None
       THEN /\ socks' = [socks EXCEPT ![socket].closed = TRUE]
            /\ socket' = None
       ELSE UNCHANGED << socks, socket >>
  /\ UNCHANGED << client, tag, sequence, pc, trace, i, nsamp, starttime, buf,
                  trys, wire, connects, sleeps >>

\* mutant of Close: the socket is closed but self.socket keeps it
CloseKeepsSocket ==
  /\ UNCHANGED enc
  /\ UNCHANGED storeVars
  /\ CanCall
  /\ op' = "close"
  /\ err' = "none"
  /\ ops' = ops + 1
  /\ seq0' = sequence
  /\ wire0' = Len(wire)
  /\ IF socket # None
       THEN socks' = [socks EXCEPT ![socket].closed = TRUE]
       ELSE UNCHANGED socks
  /\ UNCHANGED << client, tag, socket, sequence, pc, trace, i, nsamp, starttime,
                  buf, trys, wire, connects, sleeps >>

\* mutant of Close: the sequence number starts again for the next socket
CloseResetsSequence ==
  /\ UNCHANGED enc
  /\ UNCHANGED storeVars
  /\ CanCall
  /\ op' = "close"
  /\ err' = "none"
  /\ ops' = ops + 1
  /\ seq0' = 0
  /\ wire0' = Len(wire)
  /\ sequence' = 0
  /\ IF socket # None
       THEN /\ socks' = [socks EXCEPT ![socket].closed = TRUE]
            /\ socket' = None
       ELSE UNCHANGED << socks, socket >>
  /\ UNCHANGED << client, tag, pc, trace, i, nsamp, starttime, buf, trys, wire,
                  connects, sleeps >>

\* close()
Close ==
  /\ UNCHANGED enc
  /\ UNCHANGED storeVars
  /\ CanCall
  /\ op' = "close"
  /\ err' = "none"
  /\ ops' = ops + 1
  /\ seq0' = sequence
  /\ wire0' = Len(wire)
  /\ IF socket # None
       THEN /\ socks' = [socks EXCEPT ![socket].closed = TRUE]
            /\ socket' = None
       ELSE UNCHANGED << socks, socket >>
  /\ UNCHANGED << client, tag, sequence, pc, trace, i, nsamp, starttime, buf,
                  trys, wire, connects, sleeps >>

\* store_stream(stream, host, port) is called
StoreStream(s) ==
  /\ UNCHANGED enc
  /\ caller = "none"
  /\ caller' = "store_stream"
  /\ stream' = s
  /\ UNCHANGED << client, tag, socket, sequence, pc, op, trace, i, nsamp,
                  starttime, buf, trys, socks, wire, connects, sleeps, err, ops,
                  seq0, wire0, caught >>

\* tag = '%s.%s.%s.%s_%s' % (network, station, channel, location, tnow)
StoreTag(codes) == codes + TagSeparators + TnowLen

\* the body of the for loop of store_stream.  Entered for the next trace it
\* builds the tag, constructs the client and calls send_trace; when send_trace
\* is over it calls close() after a return, and prints after an exception of
\* the constructor or of send_trace.  Either way the next trace follows.
StoreTrace ==
  /\ UNCHANGED enc
  /\ caller = "store_stream"
  /\ pc = "idle"
  /\ stream # << >>
  /\ IF client = "none"
       THEN LET len == StoreTag(Head(stream).codes)
            IN  /\ tag' = len
                /\ socket' = None
                /\ sequence' = 0
                /\ UNCHANGED << socks, err >>
                /\ IF TagAccepted(len)
                     THEN /\ client' = "ready"
                          /\ op' = "send_trace"
                          /\ trace' = Head(stream).tr
                          /\ i' = 0
                          /\ nsamp' = Step(Head(stream).tr)
                          /\ starttime' = 0
                          /\ pc' = "loop"
                          /\ seq0' = 0
                          /\ wire0' = Len(wire)
                          /\ UNCHANGED << stream, caught >>
                     ELSE /\ caught' = caught + 1
                          /\ stream' = Tail(stream)
                          /\ UNCHANGED << client, op, trace, i, nsamp, starttime,
                                          pc, seq0, wire0 >>
       ELSE /\ client' = "none"
            /\ op' = "none"
            /\ err' = "none"
            /\ stream' = Tail(stream)
            /\ UNCHANGED << tag, sequence, trace, i, nsamp, starttime, pc, seq0,
                            wire0 >>
            /\ IF err = "none"
                 THEN /\ UNCHANGED caught
                      /\ IF socket # None
                           THEN /\ socks' = [socks EXCEPT ![socket].closed = TRUE]
                                /\ socket' = None
                           ELSE UNCHANGED << socks, socket >>
                 ELSE /\ caught' = caught + 1
                      /\ UNCHANGED << socks, socket >>
  /\ UNCHANGED << buf, trys, wire, connects, sleeps, ops, caller >>

Next ==
  \/ \E s \in SeqsUpTo(StreamItems, MaxStream) : StoreStream(s)
  \/ StoreTrace
  \/ \E len \in TagLens : Construct(len)
  \/ \E tr \in Traces : SendTrace(tr)
  \/ Loop
  \/ Forceout
  \/ Send
  \/ \E ok \in BOOLEAN : Connect(ok)
  \/ \E ok \in BOOLEAN : TagSend(ok)
  \/ \E ok \in BOOLEAN : Write(ok)
  \/ Close

Spec == Init /\ [][Next]_vars

\* ------------------------------------------- the encoding methods on their own

clientVars == << client, tag, socket, sequence, pc, op, trace, i, nsamp,
                 starttime, buf, trys, socks, wire, connects, sleeps, err, ops,
                 seq0, wire0, caller, stream, caught >>

\* a constructed client with any accepted tag, which has sent some packets
InitEnc ==
  /\ client = "ready"
  /\ tag \in 0..TagLimit
  /\ socket = None
  /\ sequence \in 0..MaxSeq
  /\ pc = "idle"
  /\ op = "none"
  /\ trace = NoTrace
  /\ i = 0
  /\ nsamp = 0
  /\ starttime = 0
  /\ buf = NoBuf
  /\ trys = 0
  /\ socks = << >>
  /\ wire = << >>
  /\ connects = 0
  /\ sleeps = 0
  /\ err = "none"
  /\ ops = 0
  /\ seq0 = 0
  /\ wire0 = 0
  /\ caller = "user"
  /\ stream = << >>
  /\ caught = 0
  /\ enc = NoEnc

\* _get_mantissa_divisor(rate)
EncRate(r) ==
  /\ enc = NoEnc
  /\ enc' = [fn |-> "rate", rate |-> r, out |-> GetMantissaDivisor(r)]
  /\ UNCHANGED clientVars

\* _get_tag()
EncTag ==
  /\ enc = NoEnc
  /\ enc' = [fn |-> "tag", pkt |-> GetTag, values |-> TagValues]
  /\ UNCHANGED clientVars

\* _get_data(samples, time, rate) for n samples
EncData(n, r) ==
  /\ enc = NoEnc
  /\ enc' = [fn |-> "data", n |-> n, rate |-> r,
             res |-> GetData(n, 0, 0, r, sequence)]
  /\ UNCHANGED clientVars

\* create_seedname(station, channel, location, network) as __init__ calls it,
\* and the seed name in the '12s' field of a header
EncSeedname(c) ==
  /\ enc = NoEnc
  /\ enc' = [fn |-> "seedname", codes |-> c, out |-> CreateSeedname(c),
             field |-> Pack12s(CreateSeedname(c))]
  /\ UNCHANGED clientVars

\* one encoding method is called, once
NextEnc ==
  \/ enc = NoEnc /\ \E r \in Rates : EncRate(r)
  \/ EncTag
  \/ enc = NoEnc /\ \E n \in SampleCounts, r \in {Hz(1), Hz(MaxHz)} : EncData(n, r)
  \/ enc = NoEnc /\ \E c \in CodeSets : EncSeedname(c)

SpecEnc == InitEnc /\ [][NextEnc]_vars

\* ------------------------------------------------------------------- claims

IsData(w) == w.kind = "data"
IsPayload(w) == w.kind # "tag"

\* the sendalls of the running (or last) call, in order
CallWire == SubSeq(wire, wire0 + 1, Len(wire))
\* the data packets among them
CallData == SelectSeq(CallWire, IsData)
\* the data and forceout packets that were written without error, in order
Delivered == SelectSeq(wire, LAMBDA w : w.ok /\ IsPayload(w))

\* C1: the data and forceout packets a client writes carry 0, 1, 2, ... in
\* send order: k chunks carry 0..k-1 and the forceout after them carries k.
\* The tag packet written while the socket is opened takes no number.
C1_WireSequence ==
  caller = "user" =>
    /\ \A j \in 1..Len(Delivered) : Delivered[j].seq = j - 1
    /\ \A k \in 1..Len(wire) : wire[k].kind = "tag" => wire[k].seq = 0

\* C1 witness: a fresh client sent three chunks and then the forceout
C1_Witness ==
  /\ caller = "user"
  /\ ops = 2
  /\ op = "forceout"
  /\ pc = "idle"
  /\ err = "none"
  /\ Len(wire) = 5
  /\ wire[1].kind = "tag" /\ wire[1].ok
  /\ Len(Delivered) = 4
  /\ \A j \in 1..3 : Delivered[j].kind = "data" /\ Delivered[j].seq = j - 1
  /\ Delivered[4].kind = "forceout" /\ Delivered[4].seq = 3

\* C2: when send_trace has sent the chunks of a channel and returns (the call
\* after it in store_stream is close()), the last packet written on the
\* connection is a forceout.
C2_ForceoutEndsChannel ==
  (op = "send_trace" /\ pc = "idle" /\ err = "none" /\ Len(CallData) > 0) =>
    /\ wire[Len(wire)].kind = "forceout"
    /\ wire[Len(wire)].ok
    /\ wire[Len(wire)].sock = socket

\* C3: a sendall that fails on chunk j of send_trace ends the call with the
\* socket error: chunks 1..j-1 were written once each, in order, and count in
\* self.sequence; chunk j is the last write; no later chunk is attempted.
C3_SendFailureAborts ==
  (caller = "user" /\ op = "send_trace"
     /\ \E k \in 1..Len(CallData) : ~CallData[k].ok) =>
    LET j == Len(CallData)
    IN  /\ pc = "idle"
        /\ err = "socket"
        /\ ~CallData[j].ok
        /\ wire[Len(wire)] = CallData[j]
        /\ \A k \in 1..(j - 1) : CallData[k].ok
        /\ \A k \in 1..j : CallData[k].idx = (k - 1) * Step(trace)
        /\ sequence = seq0 + (j - 1)

\* C3 witness: chunk 2 of 3 failed on a fresh client; chunk 1 is the one sent
C3_Witness ==
  /\ caller = "user"
  /\ op = "send_trace"
  /\ ops = 1
  /\ trace.n = 150
  /\ pc = "idle"
  /\ err = "socket"
  /\ Len(CallData) = 2
  /\ CallData[1].ok
  /\ ~CallData[2].ok
  /\ sequence = 1

\* C4: _open_socket never makes a 4th connect attempt, and when it gives up
\* after failures only, it has made exactly 3.
C4_ThreeConnectAttempts ==
  /\ connects <= 3
  /\ (pc = "idle" /\ err = "open" /\ sleeps = connects) => connects = 3

\* the latest _open_socket made 3 connects: two failed, the third succeeded
OpenedOnThird ==
  /\ connects = 3
  /\ Len(socks) >= 3
  /\ socks[Len(socks)].connected
  /\ ~socks[Len(socks) - 1].connected
  /\ ~socks[Len(socks) - 2].connected

\* C5: when connect fails twice and then succeeds, _open_socket does not give
\* up: it has slept exactly twice, the client holds the connected socket, and
\* the tag is the first thing written on it.
C5_ThirdAttemptOpens ==
  OpenedOnThird =>
    LET s == Len(socks)
        on == SelectSeq(wire, LAMBDA w : w.sock = s)
    IN  /\ sleeps = 2
        /\ err # "open"
        /\ ~socks[s].closed => socket = s
        /\ pc = "tag" => on = << >>
        /\ pc # "tag" => (Len(on) > 0 /\ on[1].kind = "tag")
        /\ (pc # "tag" /\ on[1].ok) => (pc = "write" \/ Len(on) > 1)

\* C5 witness: the socket was opened on the third attempt, the tag was sent
C5_Witness ==
  /\ OpenedOnThird
  /\ sleeps = 2
  /\ socket = Len(socks)
  /\ pc = "write"
  /\ wire[Len(wire)].kind = "tag"
  /\ wire[Len(wire)].ok
  /\ wire[Len(wire)].sock = socket

\* some socket of the client has been closed by close()
HasClosed == \E s \in 1..Len(socks) : socks[s].closed

Tagged(s) == \E k \in 1..Len(wire) : wire[k].sock = s /\ wire[k].kind = "tag" /\ wire[k].ok

\* C7: outside _open_socket the client holds a socket only if it connected
\* and the tag was written on it, and a data or forceout packet is written
\* only on a socket the tag was written on.
C7_OpenOnlyAfterTag ==
  /\ (socket # None /\ pc # "tag") => (socks[socket].connected /\ Tagged(socket))
  /\ \A k \in 1..Len(wire) : IsPayload(wire[k]) => Tagged(wire[k].sock)

\* C8: the constructor raises exactly for a tag longer than 10 characters, and
\* then no socket has been created, no connect attempted and nothing written.
C8_TagChecked ==
  caller = "user" =>
    /\ client = "failed" => (tag > 10 /\ err = "tag" /\ socks = << >>
                               /\ wire = << >> /\ connects = 0)
    /\ client = "ready" => tag <= 10

\* C8 witness: a tag of 11 characters was refused
C8_Witness ==
  /\ client = "failed"
  /\ tag = 11
  /\ socks = << >>
  /\ connects = 0

\* the number of samples the last pass of the loop of send_trace gave _get_data
Encoded == Slice(trace, starttime, starttime + (nsamp - 1) * timeoffset).len

\* C9: _get_data raises the size error exactly when it is given more than
\* 32767 samples; otherwise the packet's sample count is the number given.
C9_PayloadLimit ==
  (op = "send_trace" /\ (pc = "send" \/ (pc = "idle" /\ err \in {"toolarge", "struct"}))) =>
    /\ err = "toolarge" <=> Encoded > 32767
    /\ err # "struct"
    /\ pc = "send" => (buf.kind = "data" /\ buf.nsamp = Encoded)

\* C9 witness: 32768 samples were refused
C9_Witness ==
  /\ op = "send_trace"
  /\ pc = "idle"
  /\ err = "toolarge"
  /\ Encoded = 32768

\* C10: send_trace of 150 samples at 1 Hz writes 3 data packets of 60, 60 and
\* 30 samples that start 0, 60 and 120 seconds after the start of the trace.
C10_ChunksOf150 ==
  (op = "send_trace" /\ pc = "idle" /\ err = "none"
     /\ trace = [rate |-> 1, n |-> 150]) =>
    /\ Len(CallData) = 3
    /\ << CallData[1].nsamp, CallData[2].nsamp, CallData[3].nsamp >> = << 60, 60, 30 >>
    /\ << CallData[1].time, CallData[2].time, CallData[3].time >> = << 0, 60, 120 >>

\* C11: every data packet send_trace builds has between 1 and 32767 samples,
\* and send_trace never ends with the size error of _get_data.
C11_ChunkSizes ==
  op = "send_trace" =>
    /\ err # "toolarge"
    /\ pc = "send" => (1 <= buf.nsamp /\ buf.nsamp <= 32767)
    /\ \A k \in 1..Len(CallData) : 1 <= CallData[k].nsamp /\ CallData[k].nsamp <= 32767

\* the data and forceout packets written without error on socket s, in order
DeliveredOn(s) == SelectSeq(wire, LAMBDA w : w.sock = s /\ w.ok /\ IsPayload(w))

\* the number of data and forceout packets written without error on sockets
\* created before socket s
DeliveredBefore(s) == Len(SelectSeq(wire, LAMBDA w : w.sock < s /\ w.ok /\ IsPayload(w)))

Abs(x) == IF x < 0 THEN 0 - x ELSE x

\* rate > 0.9999
AboveFloor(r) == r.num > 9999 * Unit(r)

\* |rate - 1/60| <= 1e-8, which is |60 * num - den| <= 60 * den / 1e8
WithinMinute(r) == Abs(60 * r.num - r.den) <= (3 * r.den) \div 5000000

C14_TenThousandths ==
  (enc.fn = "rate" /\ enc.rate.num > 0 /\ ~AboveFloor(enc.rate)
     /\ ~WithinMinute(enc.rate)) =>
    /\ enc.out.div = -10000
    /\ 2 * Abs(enc.rate.num - enc.out.mant * Unit(enc.rate)) <= Unit(enc.rate)

\* C15 as claimed: a rate within 1e-8 of 1/60 is encoded as (-60, 1).
C15_MinuteRate ==
  (enc.fn = "rate" /\ WithinMinute(enc.rate)) =>
    enc.out = [mant |-> -60, div |-> 1]

\* C15 as amended: of the rates within 1e-8 of 1/60, those with
\* rate * 60 - 1 < 1e-8 are encoded as (-60, 1); the others, which lie more
\* than 1e-8 / 60 above 1/60, are encoded as (166, -10000).
C15_MinuteRateBelow ==
  (enc.fn = "rate" /\ WithinMinute(enc.rate)) =>
    IF 60 * enc.rate.num - enc.rate.den <= (enc.rate.den - 1) \div 100000000
      THEN enc.out = [mant |-> -60, div |-> 1]
      ELSE enc.out = [mant |-> 166, div |-> -10000]

\* C15 witness: 1/60 Hz itself
C15_Witness ==
  /\ enc.fn = "rate"
  /\ 60 * enc.rate.num = enc.rate.den
  /\ enc.out = [mant |-> -60, div |-> 1]

\* C16: the mantissa and the divisor of every positive rate fit a signed
\* short, and _get_data never fails to pack them.
C16_RateFitsShort ==
  /\ (enc.fn = "rate" /\ enc.rate.num > 0) =>
       (FitsShort(enc.out.mant) /\ FitsShort(enc.out.div))
  /\ (enc.fn = "data" /\ enc.n <= 32767) => enc.res.err = "none"

\* C17: every forceout packet written has sample count -2, rate mantissa 0
\* and rate divisor 0, and is the 40 bytes of a header.
C17_ForceoutPacket ==
  \A k \in 1..Len(wire) :
    wire[k].kind = "forceout" =>
      /\ wire[k].nsamp = -2
      /\ wire[k].mant = 0
      /\ wire[k].div = 0
      /\ wire[k].size = 40

\* C18: whatever the sequence number, the tag packet of a tag of 0 to 10
\* characters is 40 bytes: 0xa1b2, -1, the tag followed by spaces up to 12
\* characters, and six zero integers.
C18_TagPacket ==
  enc.fn = "tag" =>
    /\ enc.pkt.size = 40
    /\ enc.pkt.nsamp = -1
    /\ enc.values = << 41394, -1, Chars("t", tag) \o Chars(" ", 12 - tag),
                       0, 0, 0, 0, 0, 0 >>
    /\ Len(enc.values[3]) = 12

\* C18 witness: the tag packet of a 10 character tag, built by a client whose
\* sequence number is not 0
C18_Witness ==
  /\ enc.fn = "tag"
  /\ tag = 10
  /\ sequence > 0
  /\ enc.pkt.size = 40

\* C19: for 0 < n <= 32767 samples _get_data does not raise the size error,
\* and the packet it returns has sample count n, the client's sequence number,
\* the n samples from the first one on, and 40 + 4n bytes.
C19_DataPacket ==
  (enc.fn = "data" /\ 0 < enc.n /\ enc.n <= 32767) =>
    /\ enc.res.err # "toolarge"
    /\ enc.res.err = "none" =>
         /\ enc.res.pkt.kind = "data"
         /\ enc.res.pkt.nsamp = enc.n
         /\ enc.res.pkt.seq = sequence
         /\ enc.res.pkt.lo = 0
         /\ enc.res.pkt.size = 40 + 4 * enc.n

\* C19 witness: 32767 samples in a packet of 131108 bytes, sequence not 0
C19_Witness ==
  /\ enc.fn = "data"
  /\ enc.n = 32767
  /\ sequence > 0
  /\ enc.res.err = "none"
  /\ enc.res.pkt.size = 131108

\* C20: the seed name create_seedname builds is 12 characters long, so the
\* '12s' field of a header holds it whole, padded with spaces only.
C20_SeedName ==
  enc.fn = "seedname" =>
    /\ Len(enc.out) = 12
    /\ enc.field = enc.out
    /\ \A k \in 1..12 : enc.field[k] # "NUL"

\* the step is a call of close() by the caller
CloseCalled == ops' = ops + 1 /\ op' = "close"

\* C21: close() never raises and leaves the client without a socket; with a
\* socket held it closes that socket, which was not closed before; without one
\* it closes nothing and changes nothing of the client.
C21_CloseIdempotent ==
  [][CloseCalled =>
       /\ err' = "none"
       /\ pc' = "idle"
       /\ socket' = None
       /\ UNCHANGED << client, tag, sequence, wire >>
       /\ socket # None =>
            (~socks[socket].closed /\ socks' = [socks EXCEPT ![socket].closed = TRUE])
       /\ socket = None => UNCHANGED socks]_vars

\* C21 witness: three calls, none of them send_trace, the last one close(),
\* wrote one tag and one forceout packet: close() was called twice, once with
\* the socket held and once without a socket, and raised nothing
C21_Witness ==
  /\ caller = "user"
  /\ ops = 3
  /\ op = "close"
  /\ trace = NoTrace
  /\ err = "none"
  /\ Len(wire) = 2
  /\ Len(socks) = 1
  /\ socks[1].closed
  /\ socket = None

\* the step is a sendall that failed
WriteFailed == Len(wire') > Len(wire) /\ ~wire'[Len(wire')].ok

\* C22: a sendall that fails is the only write of its _send and ends the call
\* with the client still holding the same socket; a socket is created only
\* when the client holds none, and the client lets go of its socket only in
\* close().  So no _send connects after a failed one until close() is called.
C22_NoAutoReconnect ==
  [][caller = "user" =>
       /\ WriteFailed =>
            /\ Len(wire') = Len(wire) + 1
            /\ pc' = "idle"
            /\ err' = "socket"
            /\ socket # None
            /\ socket' = socket
            /\ socks' = socks
       /\ Len(socks') > Len(socks) => socket = None
       /\ (socket # None /\ socket' # socket) => (CloseCalled /\ socket' = None)]_vars

\* C22 witness: after a sendall failed on the only socket created, a later
\* call wrote on that socket
C22_Witness ==
  /\ caller = "user"
  /\ Len(socks) = 1
  /\ \E k \in 1..Len(wire) :
       /\ ~wire[k].ok
       /\ k <= wire0
       /\ Len(wire) > wire0
       /\ wire[Len(wire)].sock = wire[k].sock

\* C23: store_stream does not return normally after a failure: when it has
\* handled every trace, it has caught and dropped no exception.
C23_FailuresSurface ==
  (caller = "store_stream" /\ stream = << >>) => caught = 0

\* store_stream stands at input_client.close(): send_trace has returned
StoreCloses == caller = "store_stream" /\ client = "ready" /\ pc = "idle" /\ err = "none"

C25_StoreStreamTag ==
  caller = "store_stream" => tag <= 10

\* ceil(a / b) for b > 0
CeilDiv(a, b) == (a + b - 1) \div b

\* C26: when send_trace has returned, its data packets are the consecutive
\* windows of W = rate * 60 samples of the trace, the last one clipped:
\* ceil(N / W) packets, packet k starting at sample (k - 1) * W.
C26_ConsecutiveChunks ==
  (caller = "user" /\ op = "send_trace" /\ pc = "idle" /\ err = "none") =>
    LET W == trace.rate * 60
    IN  /\ Len(CallData) = CeilDiv(trace.n, W)
        /\ \A k \in 1..Len(CallData) :
             /\ CallData[k].lo = (k - 1) * W
             /\ CallData[k].nsamp = Min(W, trace.n - (k - 1) * W)

\* C27: the first sendall on every socket is the tag packet, and no later
\* sendall on that socket is: the tag is written once, before every data and
\* forceout packet of the socket.
C27_TagFirstAndOnce ==
  /\ \A k \in 1..Len(wire) :
       wire[k].kind = "tag" <=> (\A j \in 1..(k - 1) : wire[j].sock # wire[k].sock)
  /\ (socket # None /\ pc # "tag") =>
       \E k \in 1..Len(wire) : wire[k].sock = socket /\ wire[k].kind = "tag"

\* C27 witness: a second socket, opened after close(), carried the tag and
\* then a packet, as the first socket had
C27_Witness ==
  /\ Len(wire) = 4
  /\ \A k \in 1..4 : wire[k].ok
  /\ wire[1].kind = "tag" /\ wire[1].sock = 1
  /\ IsPayload(wire[2]) /\ wire[2].sock = 1
  /\ wire[3].kind = "tag" /\ wire[3].sock = 2
  /\ IsPayload(wire[4]) /\ wire[4].sock = 2

\* C28: outside _open_socket every socket created is self.socket or closed.
C28_OneSocketOwned ==
  pc \notin {"connect", "tag"} =>
    \A s \in 1..Len(socks) : s = socket \/ socks[s].closed

\* C29: _open_socket raises only when every connect of its loop failed.
C29_OpenFailsOnlyIfAllFail ==
  (pc = "idle" /\ err = "open") =>
    \A s \in (Len(socks) - connects + 1)..Len(socks) : ~socks[s].connected

\* C30: self.sequence is the number of data and forceout packets written
\* without error since construction, and a step that writes none of them
\* leaves it unchanged.
C30_SequenceCounts ==
  [][caller' = "user" =>
       /\ sequence' = Len(SelectSeq(wire', LAMBDA w : w.ok /\ IsPayload(w)))
       /\ (WriteFailed \/ err' = "open") => sequence' = sequence]_vars

\* C30 witness: of three packets handed to _send one failed in sendall, and
\* the counter is 2
C30_Witness ==
  /\ caller = "user"
  /\ sequence = 2
  /\ Len(SelectSeq(wire, IsPayload)) = 3
  /\ \E k \in 1..Len(wire) : IsPayload(wire[k]) /\ ~wire[k].ok

====
